---- MODULE Spec2Model ----
(***************************************************************************)
(* Model of gitbutler-app/src/lock.rs: a directory lock made of an         *)
(* in-process Mutex wrapping an fslock::LockFile (an OS advisory lock on   *)
(* the sibling file <dir>.lock).                                           *)
(*                                                                         *)
(* Threads of one process call Dir::new, Dir::clone, drop and Dir::batch.  *)
(* Each Inner ("State") owns one open lock file; the OS lock is exclusive  *)
(* between open files (flock semantics, as the test                        *)
(* test_lock_different_instances relies on).                               *)
(***************************************************************************)
EXTENDS Integers, FiniteSets, Sequences, TLC

\* ---- bounds -------------------------------------------------------------
NumThreads == 2
MaxRefs == 2

Threads == 1..NumThreads

\* Call frames of batch: one per thread for the calls a thread makes itself,
\* and one more for a batch call made from inside a running action.
Frames == 1..(NumThreads + 1)
None == 0

\* The two Inner slots: one per Dir::new of the tests (spawned task, main thread).
States == {1, 2}

\* file.txt holds 0 at first; the action run by thread t writes t, so the
\* content names the last writer.
Vals == {0} \cup Frames

\* ---- paths and the filesystem --------------------------------------------
\* A path is a parent directory and a last component, the last component
\* split into stem and extension as std::path::Path does. The parent is ""
\* (the directory everything lives in) or "d" (inside the directory d).
Parents == {"", "d"}
Stems == {"d", "e", "f", "g", "l"}
Exts == {"", "x", "lock"}
Paths ==
  {p \in [dir : Parents, stem : Stems, ext : Exts] : p.dir = "" \/ p.ext = "lock"}

Path(s, e) == [dir |-> "", stem |-> s, ext |-> e]

\* Path::with_extension: parent and stem are kept, the extension is replaced.
WithExtension(p, e) == [dir |-> p.dir, stem |-> p.stem, ext |-> e]

\* Variant: the lock file is put inside the directory (path.join).
LockPath_Inside(p) == [dir |-> "d", stem |-> p.stem, ext |-> "lock"]

LockPath(p) == WithExtension(p, "lock")

\* l is a symbolic link to d: the directory a path resolves to.
Target(p) == IF p = Path("l", "") THEN Path("d", "") ELSE p

\* The directories an action can be run on.
DirPaths == {Path("d", ""), Path("d", "x"), Path("g", "")}

\* The directories and files that exist before any Dir is built:
\* d and e.lock are directories, f is a regular file, the rest is absent.
InitFs ==
  [p \in Paths |->
     IF p \in {Path("d", ""), Path("e", "lock")} THEN "dir"
     ELSE IF p = Path("f", "") THEN "file"
     ELSE "absent"]

\* A richer filesystem: d, d.x and g are directories, l is a symbolic link
\* to d, e.lock is a directory, f is a regular file.
InitFsDirs ==
  [p \in Paths |->
     IF p \in {Path("d", ""), Path("d", "x"), Path("g", ""), Path("e", "lock")}
       THEN "dir"
     ELSE IF p = Path("l", "") THEN "link"
     ELSE IF p = Path("f", "") THEN "file"
     ELSE "absent"]

\* Path::is_dir follows symbolic links.
IsDir(f, p) == f[Target(p)] = "dir" /\ f[p] \in {"dir", "link"}

\* The paths Dir::new is tried on: a directory, a regular file, a path that
\* does not exist, and a directory whose name already ends in .lock.
CreateArgs == {Path("d", ""), Path("f", ""), Path("f", "x"), Path("e", "lock")}

\* ---- values returned to callers ---------------------------------------------
Result(k, v) == [kind |-> k, val |-> v]
NoResult == Result("None", 0)

\* What the action a caller passes to batch does once it runs: it reads
\* file.txt, then either writes its value v and returns Ok(v), writes v and
\* returns Err(v), or panics (a failed assertion) before writing.
Actions == {"Ok", "Err", "Panic"}

\* The value the action of thread t writes and returns.
ValueOf(t) == t

VARIABLES
  fs,        \* Paths -> "absent" | "dir" | "file" | "link"
  content,   \* Paths -> Vals : content of file.txt in each directory
  oslock,    \* lock-file path -> State whose open file holds the OS lock, or None
  refs,      \* State -> number of live Dir handles (Arc strong count); 0 = no Inner
  lfile,     \* State -> path of the lock file Inner.flock has open, NoFile if none
  spath,     \* State -> Inner.path
  holder,    \* State -> thread holding the Mutex guard, or None
  poisoned,  \* State -> Mutex poison flag
  locked,    \* State -> LockFile's own "I hold the lock" flag
  pc,        \* thread -> position inside batch
  st,        \* thread -> State its batch call runs on
  act,       \* thread -> what the action passed to batch did
  seen,      \* thread -> what the action read from file.txt
  res,       \* thread -> value the call is about to return (pc = "ret") or
             \*           has returned to the caller (pc = "done")
  oserr,     \* thread -> which OS lock call failed in this batch: "none" | "lock" | "unlock"
  arg,       \* thread -> the path given to Dir::new, while its result is in res
  caller,    \* thread -> the call frame whose action issued this batch call, or None
  root       \* thread -> the path handed to the action

vars == <<fs, content, oslock, refs, lfile, spath, holder, poisoned, locked,
          pc, st, act, seen, res, oserr, arg, caller, root>>

fsVars == <<fs, content>>
stateVars == <<refs, lfile, spath, holder, poisoned, locked>>
threadVars == <<pc, st, act, seen, res, oserr, arg, caller, root>>

NoAct == "None"
\* What spath holds for a State slot with no Inner in it.
NoPath == Path("d", "")
\* What lfile holds for a State with no open lock file.
NoFile == NoPath

\* No Dir has been built yet and no call is under way.
InitObjects ==
  /\ content = [p \in DirPaths |-> 0]
  /\ oslock = [p \in Paths |-> None]
  /\ refs = [s \in States |-> 0]
  /\ lfile = [s \in States |-> NoFile]
  /\ spath = [s \in States |-> NoPath]
  /\ holder = [s \in States |-> None]
  /\ poisoned = [s \in States |-> FALSE]
  /\ locked = [s \in States |-> FALSE]
  /\ pc = [t \in Frames |-> "idle"]
  /\ st = [t \in Frames |-> None]
  /\ act = [t \in Frames |-> NoAct]
  /\ seen = [t \in Frames |-> 0]
  /\ res = [t \in Frames |-> NoResult]
  /\ oserr = [t \in Frames |-> "none"]
  /\ arg = [t \in Frames |-> NoPath]
  /\ caller = [t \in Frames |-> None]
  /\ root = [t \in Frames |-> NoPath]

Init ==
  /\ fs = InitFs
  /\ InitObjects

\* ---- helpers ----------------------------------------------------------------
Alive(s) == refs[s] > 0

InBatch(t) == pc[t] # "idle"

InAction(t) == pc[t] \in {"action", "acting"}

\* The lock file Inner s has open.
LockOf(s) == lfile[s]

\* The action of frame t is waiting for a batch call it issued.
HasCallee(t) == \E f \in Frames : caller[f] = t

\* Variant: a lock that is per process, so that a second open file of the
\* same process is never made to wait.
OsLockFree_PerProcess(s) == TRUE

\* Variant: one lock for all lock files, whichever file is locked.
OsLockFree_Global(s) == \A p \in Paths : oslock[p] \in {None, s}

\* sys::lock returns once no other open file holds the OS lock.
OsLockFree(s) == oslock[LockOf(s)] \in {None, s}

\* Variant: a re-entrant mutex, which lets a call made from inside the
\* holder's action through.
MutexFree_Reentrant(s) ==
  \/ holder[s] = None
  \/ \E f \in Frames : caller[f] = holder[s] /\ st[f] = s /\ pc[f] = "mutex"

\* std::sync::Mutex::lock returns once no thread holds the guard.
MutexFree(s) == holder[s] = None

\* Variant: the error is wrapped but its value is replaced by a default.
MapErr_DropsValue(a, v) ==
  IF a = "Err" THEN [kind |-> "Batch", val |-> 0] ELSE [kind |-> "Ok", val |-> v]

\* map_err(BatchError::Batch): Ok(v) stays, Err(e) becomes Batch(e).
MapErr(a, v) ==
  IF a = "Err" THEN Result("Batch", v) ELSE Result("Ok", v)

\* A thread leaves batch: its locals go away, the caller receives r
\* (for a panic, r is the panic that unwinds into the caller).
Leave(t, r) ==
  /\ pc' = [pc EXCEPT ![t] = "done"]
  /\ st' = [st EXCEPT ![t] = None]
  /\ act' = [act EXCEPT ![t] = NoAct]
  /\ seen' = [seen EXCEPT ![t] = 0]
  /\ res' = [res EXCEPT ![t] = r]
  /\ oserr' = [oserr EXCEPT ![t] = "none"]
  /\ root' = [root EXCEPT ![t] = NoPath]
  /\ UNCHANGED <<arg, caller>>

\* The caller has looked at the returned value and goes on.
Resume(t) ==
  /\ pc[t] = "done"
  /\ pc' = [pc EXCEPT ![t] = "idle"]
  /\ res' = [res EXCEPT ![t] = NoResult]
  /\ arg' = [arg EXCEPT ![t] = NoPath]
  /\ caller' = [caller EXCEPT ![t] = None]
  /\ UNCHANGED <<st, act, seen, oserr, root>>
  /\ UNCHANGED <<fs, content, oslock, refs, lfile, spath, holder, poisoned, locked>>

\* ---- Dir::new / Inner::new ------------------------------------------------------
\* Variant: the lock file is opened before the is_dir test.
InnerNew_OpenFirst(t, p, openOk) ==
  /\ pc[t] = "idle"
  /\ IF fs[LockPath(p)] = "dir" \/ ~openOk
       THEN /\ res' = [res EXCEPT ![t] = [kind |-> "Io", val |-> 0]]
            /\ UNCHANGED <<fs, refs, lfile, spath>>
       ELSE IF ~IsDir(fs, p)
         THEN /\ fs' = [fs EXCEPT ![LockPath(p)] = "file"]
              /\ res' = [res EXCEPT ![t] = [kind |-> "NotDirectory", val |-> 0]]
              /\ UNCHANGED <<refs, lfile, spath>>
         ELSE \E s \in States :
                /\ refs[s] = 0
                /\ fs' = [fs EXCEPT ![LockPath(p)] = "file"]
                /\ refs' = [refs EXCEPT ![s] = 1]
                /\ lfile' = [lfile EXCEPT ![s] = LockPath(p)]
                /\ spath' = [spath EXCEPT ![s] = p]
                /\ res' = [res EXCEPT ![t] = [kind |-> "Handle", val |-> 0]]
  /\ pc' = [pc EXCEPT ![t] = "done"]
  /\ arg' = [arg EXCEPT ![t] = p]
  /\ UNCHANGED <<content, oslock, holder, poisoned, locked>>
  /\ UNCHANGED <<st, act, seen, oserr, caller, root>>

\* openOk is whether the OS lets the lock file be opened or created.
InnerNew(t, p, openOk) ==
  /\ pc[t] = "idle"
  /\ IF ~IsDir(fs, p)
       THEN /\ res' = [res EXCEPT ![t] = Result("NotDirectory", 0)]
            /\ UNCHANGED <<fs, refs, lfile, spath>>
       ELSE IF fs[LockPath(p)] = "dir" \/ ~openOk
         THEN /\ res' = [res EXCEPT ![t] = Result("Io", 0)]
              /\ UNCHANGED <<fs, refs, lfile, spath>>
         ELSE \E s \in States :
                /\ refs[s] = 0
                /\ fs' = [fs EXCEPT ![LockPath(p)] = "file"]
                /\ refs' = [refs EXCEPT ![s] = 1]
                /\ lfile' = [lfile EXCEPT ![s] = LockPath(p)]
                /\ spath' = [spath EXCEPT ![s] = p]
                /\ res' = [res EXCEPT ![t] = Result("Handle", 0)]
  /\ pc' = [pc EXCEPT ![t] = "done"]
  /\ arg' = [arg EXCEPT ![t] = p]
  /\ UNCHANGED <<content, oslock, holder, poisoned, locked>>
  /\ UNCHANGED <<st, act, seen, oserr, caller, root>>

\* ---- Dir::clone and drop ----------------------------------------------------------
Clone(s) ==
  /\ Alive(s)
  /\ refs[s] < MaxRefs
  /\ refs' = [refs EXCEPT ![s] = @ + 1]
  /\ UNCHANGED <<fs, content, oslock, lfile, spath, holder, poisoned, locked>>
  /\ UNCHANGED threadVars

\* Variant: every drop of a handle closes the lock file, not only the last.
DropDir_ClosesAlways(s) ==
  /\ Alive(s)
  /\ refs[s] > 1 \/ \A t \in Frames : st[t] # s
  /\ refs' = [refs EXCEPT ![s] = @ - 1]
  /\ oslock' = IF oslock[lfile[s]] = s
                 THEN [oslock EXCEPT ![lfile[s]] = None]
                 ELSE oslock
  /\ lfile' = [lfile EXCEPT ![s] = NoFile]
  /\ IF refs[s] = 1
       THEN /\ holder' = [holder EXCEPT ![s] = None]
            /\ poisoned' = [poisoned EXCEPT ![s] = FALSE]
            /\ locked' = [locked EXCEPT ![s] = FALSE]
            /\ spath' = [spath EXCEPT ![s] = NoPath]
       ELSE UNCHANGED <<holder, poisoned, locked, spath>>
  /\ UNCHANGED <<fs, content>>
  /\ UNCHANGED threadVars

\* A handle borrowed by a running batch cannot be dropped. Dropping the last
\* handle drops Inner: the lock file is closed, which releases its OS lock.
DropDir(s) ==
  /\ Alive(s)
  /\ refs[s] > 1 \/ \A t \in Frames : st[t] # s
  /\ refs' = [refs EXCEPT ![s] = @ - 1]
  /\ IF refs[s] = 1
       THEN /\ oslock' = IF oslock[LockOf(s)] = s
                           THEN [oslock EXCEPT ![LockOf(s)] = None]
                           ELSE oslock
            /\ lfile' = [lfile EXCEPT ![s] = NoFile]
            /\ holder' = [holder EXCEPT ![s] = None]
            /\ poisoned' = [poisoned EXCEPT ![s] = FALSE]
            /\ locked' = [locked EXCEPT ![s] = FALSE]
            /\ spath' = [spath EXCEPT ![s] = NoPath]
       ELSE UNCHANGED <<oslock, lfile, holder, poisoned, locked, spath>>
  /\ UNCHANGED <<fs, content>>
  /\ UNCHANGED threadVars

\* ---- Dir::batch / Inner::batch ------------------------------------------------------
\* The call is made through a live handle; the thread then waits for the Mutex.
BatchCall(t, s) ==
  /\ pc[t] = "idle"
  /\ Alive(s)
  /\ pc' = [pc EXCEPT ![t] = "mutex"]
  /\ st' = [st EXCEPT ![t] = s]
  /\ UNCHANGED <<act, seen, res, oserr, arg, caller, root>>
  /\ UNCHANGED fsVars
  /\ UNCHANGED <<oslock, refs, lfile, spath, holder, poisoned, locked>>

\* The action running in frame g calls batch on a live handle; the call runs
\* in the nested frame f, and g's action goes on once f has returned.
NestedCall(f, g, s) ==
  /\ f \notin Threads
  /\ pc[f] = "idle"
  /\ InAction(g)
  /\ ~HasCallee(g)
  /\ Alive(s)
  /\ pc' = [pc EXCEPT ![f] = "mutex"]
  /\ st' = [st EXCEPT ![f] = s]
  /\ caller' = [caller EXCEPT ![f] = g]
  /\ UNCHANGED <<act, seen, res, oserr, arg, root>>
  /\ UNCHANGED fsVars
  /\ UNCHANGED <<oslock, refs, lfile, spath, holder, poisoned, locked>>

\* An unwinding panic while the guard is alive poisons the Mutex and frees it.
Unwind(t, s, r) ==
  /\ poisoned' = [poisoned EXCEPT ![s] = TRUE]
  /\ holder' = [holder EXCEPT ![s] = None]
  /\ Leave(t, r)

\* Variant: try_lock in place of lock; when the Mutex is taken the call goes
\* on to the action without the guard and without the file lock.
MutexLock_TryLock(t) ==
  /\ pc[t] = "mutex"
  /\ IF holder[st[t]] = None
       THEN /\ holder' = [holder EXCEPT ![st[t]] = t]
            /\ pc' = [pc EXCEPT ![t] = "flock"]
       ELSE /\ pc' = [pc EXCEPT ![t] = "action"]
            /\ UNCHANGED holder
  /\ root' = IF holder[st[t]] = None THEN root ELSE [root EXCEPT ![t] = spath[st[t]]]
  /\ UNCHANGED <<st, act, seen, res, oserr, arg, caller>>
  /\ UNCHANGED <<fs, content, oslock, refs, lfile, spath, poisoned, locked>>

\* self.flock.lock().unwrap(): blocks while another thread holds the guard;
\* on a poisoned Mutex, unwrap panics and the guard inside the error is dropped.
MutexLock(t) ==
  /\ pc[t] = "mutex"
  /\ MutexFree(st[t])
  /\ IF poisoned[st[t]]
       THEN /\ Leave(t, Result("CorePanic", 0))
            /\ UNCHANGED holder
       ELSE /\ holder' = [holder EXCEPT ![st[t]] = t]
            /\ pc' = [pc EXCEPT ![t] = "flock"]
            /\ UNCHANGED <<st, act, seen, res, oserr, arg, caller, root>>
  /\ UNCHANGED fsVars
  /\ UNCHANGED <<oslock, refs, lfile, spath, poisoned, locked>>

\* Variant: try_lock in place of lock, its answer ignored: the call goes on
\* to the action whether or not the OS granted the lock.
FlockLock_NoWait(t) ==
  /\ pc[t] = "flock"
  /\ ~locked[st[t]]
  /\ oslock' = IF oslock[lfile[st[t]]] = None
                 THEN [oslock EXCEPT ![lfile[st[t]]] = st[t]]
                 ELSE oslock
  /\ locked' = [locked EXCEPT ![st[t]] = TRUE]
  /\ pc' = [pc EXCEPT ![t] = "action"]
  /\ root' = [root EXCEPT ![t] = spath[st[t]]]
  /\ UNCHANGED <<holder, poisoned, st, act, seen, res, oserr, arg, caller>>
  /\ UNCHANGED <<fs, content, refs, lfile, spath>>

\* flock.lock() succeeding: LockFile::lock panics when it already owns the
\* lock, otherwise it blocks in the OS until the lock is free and takes it.
FlockLock(t) ==
  /\ pc[t] = "flock"
  /\ IF locked[st[t]]
       THEN /\ Unwind(t, st[t], Result("CorePanic", 0))
            /\ UNCHANGED <<oslock, locked>>
       ELSE /\ OsLockFree(st[t])
            /\ oslock' = [oslock EXCEPT ![LockOf(st[t])] = st[t]]
            /\ locked' = [locked EXCEPT ![st[t]] = TRUE]
            /\ pc' = [pc EXCEPT ![t] = "action"]
            /\ root' = [root EXCEPT ![t] = spath[st[t]]]
            /\ UNCHANGED <<holder, poisoned, st, act, seen, res, oserr, arg, caller>>
  /\ UNCHANGED fsVars
  /\ UNCHANGED <<refs, lfile, spath>>

\* Variant: the error of flock.lock() is ignored and the action runs.
FlockLockFail_Ignored(t) ==
  /\ pc[t] = "flock"
  /\ ~locked[st[t]]
  /\ oserr' = [oserr EXCEPT ![t] = "lock"]
  /\ pc' = [pc EXCEPT ![t] = "action"]
  /\ root' = [root EXCEPT ![t] = spath[st[t]]]
  /\ UNCHANGED <<st, act, seen, res, arg, caller>>
  /\ UNCHANGED <<fs, content, oslock, refs, lfile, spath, holder, poisoned, locked>>

\* flock.lock()? failing with an I/O error: the error is converted to
\* BatchError::Io and becomes the value to return.
FlockLockFail(t) ==
  /\ pc[t] = "flock"
  /\ ~locked[st[t]]
  /\ res' = [res EXCEPT ![t] = Result("Io", 0)]
  /\ oserr' = [oserr EXCEPT ![t] = "lock"]
  /\ pc' = [pc EXCEPT ![t] = "ret"]
  /\ UNCHANGED <<st, act, seen, arg, caller, root>>
  /\ UNCHANGED fsVars
  /\ UNCHANGED <<oslock, refs, lfile, spath, holder, poisoned, locked>>

\* action(&self.path), first half: the action reads file.txt under the
\* directory it was given.
ActionRead(t) ==
  /\ pc[t] = "action"
  /\ ~HasCallee(t)
  /\ seen' = [seen EXCEPT ![t] = content[Target(root[t])]]
  /\ pc' = [pc EXCEPT ![t] = "acting"]
  /\ UNCHANGED <<st, act, res, oserr, arg, caller, root>>
  /\ UNCHANGED fsVars
  /\ UNCHANGED <<oslock, refs, lfile, spath, holder, poisoned, locked>>

\* Variant: an action that returned Err is invoked once more.
ActionFinish_Again(t, a) ==
  /\ pc[t] = "acting"
  /\ ~HasCallee(t)
  /\ IF a = "Panic"
       THEN /\ Unwind(t, st[t], [kind |-> "ActionPanic", val |-> 0])
            /\ UNCHANGED content
       ELSE /\ content' = [content EXCEPT ![Target(root[t])] = t]
            /\ act' = [act EXCEPT ![t] = a]
            /\ res' = [res EXCEPT ![t] = MapErr(a, t)]
            /\ seen' = [seen EXCEPT ![t] = 0]
            /\ pc' = [pc EXCEPT ![t] = IF a = "Err" THEN "action" ELSE "unlock"]
            /\ UNCHANGED <<holder, poisoned, st, oserr, arg, caller, root>>
  /\ UNCHANGED fs
  /\ UNCHANGED <<oslock, refs, lfile, spath, locked>>

\* action(&self.path), second half, doing a: it panics, or writes file.txt
\* and returns; `result` is its outcome after map_err(BatchError::Batch).
ActionFinish(t, a) ==
  /\ pc[t] = "acting"
  /\ ~HasCallee(t)
  /\ IF a = "Panic"
       THEN /\ Unwind(t, st[t], Result("ActionPanic", 0))
            /\ UNCHANGED content
       ELSE /\ content' = [content EXCEPT ![Target(root[t])] = ValueOf(t)]
            /\ act' = [act EXCEPT ![t] = a]
            /\ res' = [res EXCEPT ![t] = MapErr(a, ValueOf(t))]
            /\ seen' = [seen EXCEPT ![t] = 0]
            /\ pc' = [pc EXCEPT ![t] = "unlock"]
            /\ UNCHANGED <<holder, poisoned, st, oserr, arg, caller, root>>
  /\ UNCHANGED fs
  /\ UNCHANGED <<oslock, refs, lfile, spath, locked>>

\* The OS lock of s's open file is given up.
OsRelease(s) ==
  IF oslock[LockOf(s)] = s THEN [oslock EXCEPT ![LockOf(s)] = None] ELSE oslock

\* Variant: flock.unlock() is left out; the lock stays with this open file.
FlockUnlock_Missing(t) ==
  /\ pc[t] = "unlock"
  /\ pc' = [pc EXCEPT ![t] = "ret"]
  /\ UNCHANGED <<st, act, seen, res, oserr, arg, caller, root>>
  /\ UNCHANGED <<fs, content, oslock, refs, lfile, spath, holder, poisoned, locked>>

\* flock.unlock() succeeding: LockFile::unlock panics when it does not own
\* the lock, otherwise it clears its flag and releases the OS lock.
FlockUnlock(t) ==
  /\ pc[t] = "unlock"
  /\ IF ~locked[st[t]]
       THEN /\ Unwind(t, st[t], Result("CorePanic", 0))
            /\ UNCHANGED <<oslock, locked>>
       ELSE /\ locked' = [locked EXCEPT ![st[t]] = FALSE]
            /\ oslock' = OsRelease(st[t])
            /\ pc' = [pc EXCEPT ![t] = "ret"]
            /\ UNCHANGED <<holder, poisoned, st, act, seen, res, oserr, arg, caller, root>>
  /\ UNCHANGED fsVars
  /\ UNCHANGED <<refs, lfile, spath>>

\* Variant: the error of flock.unlock() is ignored and `result` is returned.
FlockUnlockFail_Ignored(t, kept) ==
  /\ pc[t] = "unlock"
  /\ locked[st[t]]
  /\ locked' = [locked EXCEPT ![st[t]] = FALSE]
  /\ oslock' = IF kept \/ oslock[lfile[st[t]]] # st[t]
                 THEN oslock
                 ELSE [oslock EXCEPT ![lfile[st[t]]] = None]
  /\ oserr' = [oserr EXCEPT ![t] = "unlock"]
  /\ pc' = [pc EXCEPT ![t] = "ret"]
  /\ UNCHANGED <<st, act, seen, res, arg, caller, root>>
  /\ UNCHANGED <<fs, content, refs, lfile, spath, holder, poisoned>>

\* flock.unlock()? failing with an I/O error: LockFile has already cleared
\* its flag; whether the OS still holds the lock for this open file depends
\* on which system call failed (kept). The Io error replaces `result`.
FlockUnlockFail(t, kept) ==
  /\ pc[t] = "unlock"
  /\ locked[st[t]]
  /\ locked' = [locked EXCEPT ![st[t]] = FALSE]
  /\ oslock' = IF kept THEN oslock ELSE OsRelease(st[t])
  /\ res' = [res EXCEPT ![t] = Result("Io", 0)]
  /\ oserr' = [oserr EXCEPT ![t] = "unlock"]
  /\ pc' = [pc EXCEPT ![t] = "ret"]
  /\ UNCHANGED <<st, act, seen, arg, caller, root>>
  /\ UNCHANGED fsVars
  /\ UNCHANGED <<refs, lfile, spath, holder, poisoned>>

\* Scope exit: the guard is dropped, then the caller receives the value.
Return(t) ==
  /\ pc[t] = "ret"
  /\ holder' = [holder EXCEPT ![st[t]] = None]
  /\ Leave(t, res[t])
  /\ UNCHANGED fsVars
  /\ UNCHANGED <<oslock, refs, lfile, spath, poisoned, locked>>

\* ---- specification ---------------------------------------------------------------
Next ==
  \/ \E t \in Threads, p \in CreateArgs, openOk \in BOOLEAN : InnerNew(t, p, openOk)
  \/ \E s \in States : Clone(s)
  \/ \E s \in States : DropDir(s)
  \/ \E t \in Threads, s \in States : BatchCall(t, s)
  \/ \E t \in Frames : MutexLock(t)
  \/ \E t \in Frames : FlockLock(t)
  \/ \E t \in Frames : FlockLockFail(t)
  \/ \E t \in Frames : ActionRead(t)
  \/ \E t \in Frames, a \in Actions : ActionFinish(t, a)
  \/ \E t \in Frames : FlockUnlock(t)
  \/ \E t \in Frames, kept \in BOOLEAN : FlockUnlockFail(t, kept)
  \/ \E t \in Frames : Return(t)
  \/ \E t \in Frames : Resume(t)

Spec == Init /\ [][Next]_vars

\* ---- Dir::new over a richer filesystem -------------------------------------------
\* The paths Dir::new is tried on: the directories d, d.x and g, the link l,
\* the directory e.lock and the regular file f.
PathArgs ==
  {Path("d", ""), Path("d", "x"), Path("g", ""), Path("l", ""),
   Path("e", "lock"), Path("f", "")}

InitPaths ==
  /\ fs = InitFsDirs
  /\ InitObjects

NextPaths ==
  \/ \E t \in Threads, p \in PathArgs, openOk \in BOOLEAN : InnerNew(t, p, openOk)
  \/ \E s \in States : DropDir(s)
  \/ \E t \in Frames : Resume(t)

SpecPaths == InitPaths /\ [][NextPaths]_vars

\* ---- batch on two Dirs, with calls from inside an action -------------------------
\* The paths the second Dir is built on: d again, d.x, g, and the link l.
DirArgs == {Path("d", ""), Path("d", "x"), Path("g", ""), Path("l", "")}

\* Two Dirs have been built by Dir::new, the first on d, the second on p2.
InitNested ==
  \E p2 \in DirArgs :
    /\ fs = [p \in Paths |->
               IF p \in {LockPath(Path("d", "")), LockPath(p2)}
                 THEN "file" ELSE InitFsDirs[p]]
    /\ content = [p \in DirPaths |-> 0]
    /\ oslock = [p \in Paths |-> None]
    /\ refs = [s \in States |-> 1]
    /\ spath = [s \in States |-> IF s = 1 THEN Path("d", "") ELSE p2]
    /\ lfile = [s \in States |-> IF s = 1 THEN LockPath(Path("d", "")) ELSE LockPath(p2)]
    /\ holder = [s \in States |-> None]
    /\ poisoned = [s \in States |-> FALSE]
    /\ locked = [s \in States |-> FALSE]
    /\ pc = [t \in Frames |-> "idle"]
    /\ st = [t \in Frames |-> None]
    /\ act = [t \in Frames |-> NoAct]
    /\ seen = [t \in Frames |-> 0]
    /\ res = [t \in Frames |-> NoResult]
    /\ oserr = [t \in Frames |-> "none"]
    /\ arg = [t \in Frames |-> NoPath]
    /\ caller = [t \in Frames |-> None]
    /\ root = [t \in Frames |-> NoPath]

NextNested ==
  \/ \E t \in Threads, s \in States : BatchCall(t, s)
  \/ \E f, g \in Frames, s \in States : NestedCall(f, g, s)
  \/ \E t \in Frames : MutexLock(t)
  \/ \E t \in Frames : FlockLock(t)
  \/ \E t \in Frames : ActionRead(t)
  \/ \E t \in Frames, a \in Actions : ActionFinish(t, a)
  \/ \E t \in Frames : FlockUnlock(t)
  \/ \E t \in Frames : Return(t)
  \/ \E t \in Frames : Resume(t)

SpecNested == InitNested /\ [][NextNested]_vars

TypeOK ==
  /\ fs \in [Paths -> {"absent", "dir", "file", "link"}]
  /\ content \in [DirPaths -> Vals]
  /\ oslock \in [Paths -> States \cup {None}]
  /\ refs \in [States -> 0..MaxRefs]
  /\ lfile \in [States -> Paths]
  /\ spath \in [States -> Paths]
  /\ holder \in [States -> Frames \cup {None}]
  /\ poisoned \in [States -> BOOLEAN]
  /\ locked \in [States -> BOOLEAN]
  /\ pc \in [Frames -> {"idle", "mutex", "flock", "action", "acting", "unlock", "ret", "done"}]
  /\ st \in [Frames -> States \cup {None}]
  /\ act \in [Frames -> Actions \cup {NoAct}]
  /\ seen \in [Frames -> Vals]
  /\ oserr \in [Frames -> {"none", "lock", "unlock"}]
  /\ arg \in [Frames -> Paths]
  /\ caller \in [Frames -> Frames \cup {None}]
  /\ root \in [Frames -> Paths]

\* ---- properties --------------------------------------------------------------------
\* The State holds the OS lock: LockFile says so, or the OS has it on record
\* for the State's open file.
HoldsOsLock(s) == locked[s] \/ oslock[LockOf(s)] = s

\* C1: threads that call batch through clones of one Dir (one Inner) are
\* never inside their action bodies at the same time.
C1_SameInstanceExclusion ==
  \A t1, t2 \in Threads :
    (t1 # t2 /\ InAction(t1) /\ InAction(t2)) => st[t1] # st[t2]

\* One thread is inside its action while another, calling through a clone of
\* the same Dir, waits for the Mutex.
C1_Witness ==
  \E t1, t2 \in Threads :
    /\ t1 # t2
    /\ pc[t1] = "acting"
    /\ pc[t2] = "mutex"
    /\ st[t1] = st[t2]
    /\ refs[st[t1]] >= 2

\* C2: of two separately built Inners for the same directory path, at most
\* one holds the OS lock and at most one has a thread inside its action.
C2_CrossInstanceExclusion ==
  \A s1, s2 \in States :
    (s1 # s2 /\ Alive(s1) /\ Alive(s2) /\ spath[s1] = spath[s2]) =>
      /\ ~(HoldsOsLock(s1) /\ HoldsOsLock(s2))
      /\ \A t1, t2 \in Threads :
           ~(st[t1] = s1 /\ st[t2] = s2 /\ InAction(t1) /\ InAction(t2))

\* A thread is inside its action on one Inner while a thread on another Inner
\* for the same path holds that Inner's Mutex and waits for the OS lock.
C2_Witness ==
  \E t1, t2 \in Threads :
    /\ t1 # t2
    /\ pc[t1] = "acting"
    /\ pc[t2] = "flock"
    /\ st[t1] # st[t2]
    /\ spath[st[t1]] = spath[st[t2]]
    /\ holder[st[t2]] = t2
    /\ locked[st[t1]]

\* C3: an action starts only when no other action on the same directory is
\* running; what it read from the directory is still there while it runs
\* (every earlier action's write was complete, none interleaves); and once it
\* has written, the directory holds its value until it gives the lock up.
C3_SerializedVisibility ==
  \A t \in Threads :
    /\ InAction(t) =>
         \A u \in Threads \ {t} :
           ~(InAction(u) /\ spath[st[u]] = spath[st[t]])
    /\ pc[t] = "acting" => content[spath[st[t]]] = seen[t]
    /\ pc[t] = "unlock" => content[spath[st[t]]] = ValueOf(t)

\* B's action has read what A's finished action wrote (A on another Inner
\* for the same path).
C3_Witness ==
  \E a, b \in Threads :
    /\ a # b
    /\ pc[a] = "done"
    /\ res[a].kind = "Ok"
    /\ pc[b] = "acting"
    /\ seen[b] = ValueOf(a)
    /\ refs[1] > 0 /\ refs[2] > 0

\* C4: on the way to returning the action's value or the action's own
\* error, the release leaves the OS lock held by nobody, and the return
\* leaves the Inner's Mutex free and not poisoned with the Inner not holding
\* the OS lock: a following batch on the same Dir, a clone or another Dir for
\* the path finds nothing of the returned call left to wait for.
C4_ReleasedAfterReturn ==
  [][\A t \in Threads :
       /\ (pc[t] = "unlock" /\ pc'[t] = "ret" /\ oserr'[t] = "none") =>
            /\ oslock'[LockOf(st[t])] = None
            /\ ~locked'[st[t]]
       /\ (pc[t] = "ret" /\ pc'[t] = "done" /\ res'[t].kind \in {"Ok", "Batch"}) =>
            /\ holder'[st[t]] = None
            /\ ~poisoned'[st[t]]
            /\ ~locked'[st[t]]
            /\ oslock'[LockOf(st[t])] # st[t]
    ]_vars

\* A batch has returned the action's outcome and a later batch call by
\* another thread is inside its action.
C4_Witness ==
  \E a, b \in Threads :
    /\ a # b
    /\ pc[a] = "done"
    /\ res[a].kind \in {"Ok", "Batch"}
    /\ content[Path("d", "")] = ValueOf(a)
    /\ pc[b] = "action"

\* C5: a batch call whose OS lock calls both succeeded returns Ok(v) when
\* the action returned Ok(v) and Batch(e) with the same e when it returned
\* Err(e), and the OS lock has been released by then.
C5_ResultFidelity ==
  [][\A t \in Threads :
       (pc[t] = "ret" /\ pc'[t] = "done" /\ oserr[t] = "none") =>
         /\ act[t] \in {"Ok", "Err"}
         /\ act[t] = "Ok" => (res'[t].kind = "Ok" /\ res'[t].val = ValueOf(t))
         /\ act[t] = "Err" => (res'[t].kind = "Batch" /\ res'[t].val = ValueOf(t))
         /\ ~locked[st[t]]
         /\ oslock[LockOf(st[t])] # st[t]
    ]_vars

\* A batch call has returned the action's error, wrapped.
C5_Witness ==
  \E t \in Threads :
    /\ pc[t] = "done"
    /\ res[t].kind = "Batch"
    /\ res[t].val = ValueOf(t)

\* C6: Dir::new on a path that is not a directory returns NotDirectory and
\* changes nothing: no Inner, no lock file; every Inner's path is a directory.
C6_FailedCreateNoEffect ==
  /\ [](\A s \in States : Alive(s) => fs[spath[s]] = "dir")
  /\ [][\A t \in Threads :
          (pc[t] = "idle" /\ pc'[t] = "done" /\ fs[arg'[t]] # "dir") =>
            /\ res'[t].kind = "NotDirectory"
            /\ fs' = fs
            /\ refs' = refs
            /\ spath' = spath
            /\ oslock' = oslock
       ]_vars

\* Dir::new was given a regular file; it returned NotDirectory and no lock
\* file is next to it.
C6_Witness ==
  \E t \in Threads :
    /\ pc[t] = "done"
    /\ res[t].kind = "NotDirectory"
    /\ fs[arg[t]] = "file"
    /\ fs[LockPath(arg[t])] = "absent"

C8_ReleaseFailureOverOk ==
  [][\A t \in Threads :
       /\ (pc[t] = "unlock" /\ oserr'[t] = "unlock" /\ act[t] = "Ok") =>
            /\ pc'[t] = "ret"
            /\ res'[t].kind = "Io"
            /\ content' = content
            /\ content[spath[st[t]]] = ValueOf(t)
            /\ holder'[st[t]] = t
       /\ (pc[t] = "ret" /\ oserr[t] = "unlock" /\ act[t] = "Ok" /\ pc'[t] # "ret") =>
            /\ pc'[t] = "done"
            /\ res'[t].kind = "Io"
            /\ content' = content
            /\ holder'[st[t]] = None
            /\ ~poisoned'[st[t]]
    ]_vars

\* The action returned Ok, the release failed: the call is about to return
\* Io and the action's write is in the directory.
C8_Witness ==
  \E t \in Threads :
    /\ pc[t] = "ret"
    /\ oserr[t] = "unlock"
    /\ act[t] = "Ok"
    /\ res[t].kind = "Io"
    /\ content[spath[st[t]]] = ValueOf(t)

\* C9: whenever the action returned Err(e), batch returns Batch(e), also
\* when releasing the OS lock failed afterwards.
C9_ActionErrorNotMasked ==
  [][\A t \in Threads :
       (pc[t] = "ret" /\ pc'[t] = "done" /\ act[t] = "Err") =>
         (res'[t].kind = "Batch" /\ res'[t].val = ValueOf(t))
    ]_vars

\* C10: every Dir::new and batch call that finishes hands its caller a typed
\* result; none ends in a panic raised by Inner::batch itself (a panic of
\* the caller's action is the caller's own).
C10_NoCorePanic ==
  \A t \in Threads : pc[t] = "done" => res[t].kind # "CorePanic"


\* C11: clones of a Dir share one Inner, whose lock file is opened once, by
\* Dir::new, and closed when the last clone is dropped: an Inner has its lock
\* file open exactly while a handle to it is alive, in particular during every
\* batch on it; there are as many open lock files as live Inners, however
\* many clones exist; and cloning touches nothing but the reference count.
C11_OneOpenFilePerState ==
  /\ [](/\ \A s \in States : (lfile[s] # NoFile) <=> Alive(s)
        /\ Cardinality({s \in States : lfile[s] # NoFile})
             = Cardinality({s \in States : Alive(s)})
        /\ \A t \in Frames :
             pc[t] \notin {"idle", "done"} =>
               /\ Alive(st[t])
               /\ lfile[st[t]] = LockPath(spath[st[t]])
               /\ fs[lfile[st[t]]] = "file")
  /\ [][\A s \in States :
          /\ lfile'[s] # lfile[s] =>
               \/ refs[s] = 0 /\ refs'[s] = 1 /\ lfile'[s] # NoFile
               \/ refs[s] = 1 /\ refs'[s] = 0 /\ lfile'[s] = NoFile
          /\ (Alive(s) /\ refs'[s] > refs[s]) =>
               /\ lfile'[s] = lfile[s]
               /\ spath'[s] = spath[s]
               /\ holder'[s] = holder[s]
               /\ oslock' = oslock]_vars

\* A batch is running on an Inner that has a clone, with the lock file open,
\* while the other Inner has been dropped and its lock file closed.
C11_Witness ==
  \E s, d \in States, t \in Threads :
    /\ refs[s] >= 2
    /\ st[t] = s
    /\ pc[t] = "acting"
    /\ lfile[s] # NoFile
    /\ refs[d] = 0
    /\ lfile[d] = NoFile
    /\ fs[LockPath(Path("d", ""))] = "file"
\* C12: for every directory Dir::new accepts, the lock file it has opened is
\* the directory's path with the extension of the last component replaced by
\* "lock" (appended when there is none): same parent, same stem, so a sibling
\* of the directory, never a path inside it and never the directory itself.
C12_LockFileIsSibling ==
  \A s \in States :
    Alive(s) =>
      /\ IsDir(fs, spath[s])
      /\ lfile[s].dir = spath[s].dir
      /\ lfile[s].stem = spath[s].stem
      /\ lfile[s].ext = "lock"
      /\ lfile[s] # spath[s]
      /\ lfile[s].dir # spath[s].stem
      /\ fs[lfile[s]] = "file"

\* Dir::new has accepted d.x (lock file d.lock) and g (lock file g.lock),
\* and has refused the directory e.lock.
C12_Witness ==
  /\ \E s \in States : Alive(s) /\ spath[s] = Path("d", "x") /\ lfile[s] = Path("d", "lock")
  /\ \E s \in States : Alive(s) /\ spath[s] = Path("g", "") /\ lfile[s] = Path("g", "lock")
  /\ \E t \in Threads :
       pc[t] = "done" /\ arg[t] = Path("e", "lock") /\ res[t].kind = "Io"

\* Frame f is a batch call made from inside an action that runs on the same
\* Inner (through the same Dir or a clone of it).
Reentered(f) ==
  /\ caller[f] # None
  /\ pc[f] \notin {"idle", "done"}
  /\ st[f] = st[caller[f]]

\* C13: a batch call made from inside an action on the same Inner never gets
\* the Mutex and never returns: it waits at the Mutex for ever while the
\* outer call, which holds the guard, stays inside its action, and every
\* other call that has reached the Mutex of that Inner stays there too.
C13_ReentrantCallBlocks ==
  /\ [](\A f \in Frames :
          Reentered(f) =>
            /\ pc[f] = "mutex"
            /\ holder[st[f]] = caller[f]
            /\ InAction(caller[f]))
  /\ [][\A f \in Frames :
          Reentered(f) =>
            /\ Reentered(f)'
            /\ pc'[caller[f]] = pc[caller[f]]
            /\ holder'[st[f]] = holder[st[f]]
            /\ \A u \in Frames :
                 (st[u] = st[f] /\ pc[u] = "mutex") =>
                   (st'[u] = st[u] /\ pc'[u] = "mutex")]_vars

\* An action has called batch on its own Inner, and another thread that
\* called batch on that Inner afterwards is waiting at the Mutex.
C13_Witness ==
  \E f \in Frames, u \in Threads :
    /\ Reentered(f)
    /\ pc[caller[f]] = "acting"
    /\ u # caller[f]
    /\ st[u] = st[f]
    /\ pc[u] = "mutex"

\* No batch call is in progress on Inner s.
NoBatchOn(s) == \A t \in Frames : st[t] # s

\* C14: whenever no batch call is in progress on a live Inner, that Inner
\* does not hold the OS lock: every way out of batch, the action's panic
\* included, has released it.
C14_NoLockAcrossCalls ==
  \A s \in States : (Alive(s) /\ NoBatchOn(s)) => ~HoldsOsLock(s)

\* C15: the Mutex is taken before the OS lock is asked for and given up after
\* the OS lock is released: whenever an Inner holds the OS lock or a call
\* waits for it, exactly one thread holds that Inner's Mutex, and it is the
\* thread performing that batch call.
C15_MutexAroundOsLock ==
  \A s \in States :
    (Alive(s) /\ (HoldsOsLock(s) \/ \E t \in Frames : st[t] = s /\ pc[t] = "flock")) =>
      /\ holder[s] # None
      /\ st[holder[s]] = s
      /\ pc[holder[s]] \in {"flock", "action", "acting", "unlock", "ret"}
      /\ \A t \in Frames :
           (st[t] = s /\ pc[t] \in {"flock", "action", "acting", "unlock", "ret"})
             => t = holder[s]

\* A batch call that has been made and has not yet handed back its value.
Pending(t) == pc[t] \in {"mutex", "flock", "action", "acting", "unlock", "ret"}

\* The call waits for a lock that is not free: the Mutex held by another
\* call, or the OS lock held through another open file.
Blocked(t) ==
  \/ pc[t] = "mutex" /\ ~MutexFree(st[t])
  \/ pc[t] = "flock" /\ ~locked[st[t]] /\ ~OsLockFree(st[t])

\* C16: with actions that all come to an end and make no batch call of their
\* own, there is never a state in which batch calls are pending and every one
\* of them is blocked.
C16_NeverAllBlocked ==
  (\E t \in Frames : Pending(t)) => (\E t \in Frames : Pending(t) /\ ~Blocked(t))

\* C17: an Inner stores the canonical path of its directory, so Dirs built
\* from two spellings of one directory share the lock file, and no two batch
\* calls are inside their actions on Inners whose paths resolve to the same
\* directory.
C17_AliasesExclude ==
  \A t1, t2 \in Frames :
    (t1 # t2 /\ InAction(t1) /\ InAction(t2)) =>
      Target(spath[st[t1]]) # Target(spath[st[t2]])

\* The steps a call can take from each position: none leads back.
PcSuccessors(p) ==
  CASE p = "idle" -> {"mutex", "done"}
    [] p = "mutex" -> {"flock", "done"}
    [] p = "flock" -> {"action", "ret", "done"}
    [] p = "action" -> {"acting"}
    [] p = "acting" -> {"unlock", "done"}
    [] p = "unlock" -> {"ret", "done"}
    [] p = "ret" -> {"done"}
    [] OTHER -> {"idle"}

C19_DistinctDirsIndependent ==
  \A t \in Frames, s2 \in States :
    (pc[t] = "flock" /\ ~locked[st[t]] /\ Alive(s2)
       /\ Target(spath[s2]) # Target(spath[st[t]])) =>
      oslock[lfile[st[t]]] # s2

\* C19, amended: Dirs whose lock files differ are independent: a call that
\* asks for the OS lock gets it as soon as no other Inner with the same lock
\* file holds it, whatever Inners with other lock files hold, and whether the
\* call was made by a thread or from inside an action on another Inner.
C19_DistinctLockFilesIndependent ==
  \A t \in Frames :
    (/\ pc[t] = "flock"
     /\ ~locked[st[t]]
     /\ \A s2 \in States \ {st[t]} :
          (Alive(s2) /\ HoldsOsLock(s2)) => lfile[s2] # lfile[st[t]]) =>
      ENABLED FlockLock(t)

\* An action running on d, holding d.lock, has called batch on the Dir of g,
\* and that call has run its action and returned Ok.
C19_Witness ==
  \E f, g \in Frames, s2 \in States :
    /\ caller[f] = g
    /\ pc[g] = "acting"
    /\ HoldsOsLock(st[g])
    /\ s2 # st[g]
    /\ lfile[s2] # lfile[st[g]]
    /\ pc[f] = "done"
    /\ res[f] = Result("Ok", ValueOf(f))
    /\ content[Target(spath[s2])] = ValueOf(f)

\* C20: Dir::new takes neither the Mutex nor the OS lock and waits for
\* neither, so it goes through while a batch is running on the same
\* directory and the Inner it builds holds no OS lock; only steps of batch
\* change who holds the OS lock.
C20_OnlyBatchMovesOsLock ==
  [][/\ \A t \in Threads :
          (pc[t] = "idle" /\ pc'[t] = "done") =>
            /\ oslock' = oslock
            /\ locked' = locked
            /\ holder' = holder
            /\ poisoned' = poisoned
     /\ \A s \in States :
          (~Alive(s) /\ refs'[s] > 0) => (~locked'[s] /\ oslock'[lfile'[s]] # s)
     /\ (oslock' # oslock \/ locked' # locked) =>
          \E t \in Frames : InBatch(t) /\ pc[t] \in {"flock", "unlock"} /\ pc'[t] # pc[t]]_vars
====
